---- MODULE Spec2Model ----
(***************************************************************************)
(* A model of the bilayer displacement-grid tools of tmd:                  *)
(*   tmd/bilayer/dgrid.py    dgrid_inputs, write_dgrid, _write_dv          *)
(*   tmd/bilayer/plot_ds.py  sorted_d_group, sort_order, get_atom_order,   *)
(*                           orbital_index, system_all_gaps, find_gaps     *)
(* Each routine has its own group of variables and its own specification;  *)
(* the variables of the routines a specification does not run stay at the  *)
(* value Idle.                                                             *)
(***************************************************************************)
EXTENDS Integers, Sequences, FiniteSets, TLC

VARIABLES
    \* dgrid_inputs
    dg_pc, dg_args, d_as, d_bs, dg_i, dg_j, inputs,
    \* sorted_d_group
    sg_pc, sg_ds, sg_values, dvs,
    \* orbital_index
    oi_pc, oi_args, oi_spins, oi_out,
    \* get_atom_order
    ga_pc, cart_coords, z_order, atom_Hr_order,
    \* write_dgrid: the file system, the dgrid, the item and the run in progress,
    \* and the file system as it was at the start, before the last _write_dv
    \* and after the first run
    fs, wd_pc, wd_dgrid, wd_k, wd_run, fs_start, fs_prev, fs_run1,
    \* find_gaps: the files of the work directory, the arguments, the pool's
    \* task queue, workers, result queue and result slots, how often each task
    \* was started, the order the results arrived in, and the loop that builds
    \* gaps
    fg_files, fg_pc, fg_dps, gap_call_args, taskqueue, worker, outqueue,
    all_gaps_output, fg_started, fg_finished, fg_index, gaps

dgVars == <<dg_pc, dg_args, d_as, d_bs, dg_i, dg_j, inputs>>
sgVars == <<sg_pc, sg_ds, sg_values, dvs>>

oiVars == <<oi_pc, oi_args, oi_spins, oi_out>>
gaVars == <<ga_pc, cart_coords, z_order, atom_Hr_order>>

wdVars == <<fs, wd_pc, wd_dgrid, wd_k, wd_run, fs_start, fs_prev, fs_run1>>

fgVars == <<fg_files, fg_pc, fg_dps, gap_call_args, taskqueue, worker, outqueue,
            all_gaps_output, fg_started, fg_finished, fg_index, gaps>>

vars == <<dgVars, sgVars, oiVars, gaVars, wdVars, fgVars>>

Idle == "idle"
None == "None"

(***************************************************************************)
(* Bounds of the model.                                                    *)
(***************************************************************************)
\* largest num_d_a / num_d_b passed to dgrid_inputs
MaxNum == 3
\* longest ds / values list passed to sorted_d_group
MaxLen == 3
\* displacement coordinates of sorted_d_group's ds are drawn from 0..MaxD
MaxD == 1
\* longest atom_Hr_order passed to orbital_index
MaxAtoms == 2
\* z coordinates read by get_atom_order are drawn from 1..MaxZ
MaxZ == 6
\* largest number of entries of the dgrid passed to write_dgrid
MaxItems == 2
\* longest dps passed to find_gaps
MaxDps == 3
\* number of worker processes of the Pool
NumWorkers == 2

(***************************************************************************)
(* Numbers.  The displacement coordinates are the floats i/num; they are   *)
(* modelled exactly, as fractions <<n, d>> in lowest terms, so that two    *)
(* coordinates are the same dict key iff they are the same number.         *)
(***************************************************************************)
RECURSIVE GCD(_, _)
GCD(a, b) == IF b = 0 THEN a ELSE GCD(b, a % b)

Frac(n, d) == IF n = 0 THEN <<0, 1>> ELSE <<n \div GCD(n, d), d \div GCD(n, d)>>

Zero == Frac(0, 1)

(***************************************************************************)
(* dgrid.py: dgrid_inputs                                                  *)
(***************************************************************************)
\* np.linspace(0.0, 1.0, endpoint=True): num samples, the last one is 1.0
linspace_endpoint(num) ==
    [k \in 1..num |-> IF num = 1 THEN Zero ELSE Frac(k - 1, num - 1)]

\* np.linspace(0.0, 1.0, num, endpoint=False): the samples (k-1) * (1/num)
linspace(num) == [k \in 1..num |-> Frac(k - 1, num)]

\* tmd.bilayer.material.get_material: the material record of one displacement
get_material(db_path, sym_A, sym_B, c_sep, d_a, d_b) ==
    [db_path |-> db_path, sym_A |-> sym_A, sym_B |-> sym_B, c_sep |-> c_sep,
     d_a |-> d_a, d_b |-> d_b]

\* tmd.pwscf.build.build_qe: the input text of one calculation of a material
build_qe(material, calc_type) == <<"qe", calc_type, material>>

\* tmd.pwscf.build.build_bands: the bands post-processing input of a material
build_bands(material) == <<"bands_post", material>>

\* d[k] = v on a dict: adds the key or overwrites its value
DictSet(d, k, v) == [x \in DOMAIN d \cup {k} |-> IF x = k THEN v ELSE d[x]]

EmptyDict == [x \in {} |-> Idle]

\* the body of the two loops for one (d_a, d_b): lines 21-28
dgrid_entry(args, d_a, d_b) ==
    LET material == get_material(args.db_path, args.sym_A, args.sym_B,
                                 args.c_sep, d_a, d_b)
        e0 == DictSet(EmptyDict, "material", material)
        e1 == DictSet(e0, "scf", build_qe(material, "scf"))
        e2 == DictSet(e1, "nscf", build_qe(material, "nscf"))
        e3 == DictSet(e2, "bands", build_qe(material, "bands"))
    IN  DictSet(e3, "bands_post", build_bands(material))

DgArgs ==
    [db_path : {"c2dm.db"}, sym_A : {"MoS2"}, sym_B : {None, "WS2"},
     c_sep : {None}, num_d_a : (-1)..MaxNum, num_d_b : (-1)..MaxNum]

OiIdle == oi_pc = Idle /\ oi_args = Idle /\ oi_spins = Idle /\ oi_out = Idle

GaIdle ==
    ga_pc = Idle /\ cart_coords = Idle /\ z_order = Idle /\ atom_Hr_order = Idle

FgIdle ==
    /\ fg_files = Idle /\ fg_pc = Idle /\ fg_dps = Idle /\ gap_call_args = Idle
    /\ taskqueue = Idle /\ worker = Idle /\ outqueue = Idle
    /\ all_gaps_output = Idle /\ fg_started = Idle /\ fg_finished = Idle
    /\ fg_index = 0 /\ gaps = Idle

WdIdle ==
    /\ fs = Idle /\ wd_pc = Idle /\ wd_dgrid = Idle /\ wd_k = 0 /\ wd_run = 0
    /\ fs_start = Idle /\ fs_prev = Idle /\ fs_run1 = Idle

SgIdle == sg_pc = Idle /\ sg_ds = Idle /\ sg_values = Idle /\ dvs = Idle

DgIdle ==
    /\ dg_pc = Idle /\ dg_args = Idle /\ d_as = Idle /\ d_bs = Idle
    /\ dg_i = 0 /\ dg_j = 0 /\ inputs = Idle

DgInit ==
    /\ SgIdle /\ OiIdle /\ GaIdle /\ WdIdle /\ FgIdle
    /\ dg_pc = "start"
    /\ dg_args \in DgArgs
    /\ d_as = <<>> /\ d_bs = <<>>
    /\ dg_i = 0 /\ dg_j = 0
    /\ inputs = EmptyDict

\* lines 10-17: the two coordinate lists
DgAxes ==
    /\ dg_pc = "start"
    /\ \/ dg_args.sym_B = None
       \/ dg_args.num_d_a >= 0 /\ dg_args.num_d_b >= 0
    /\ d_as' = IF dg_args.sym_B = None THEN <<Zero>> ELSE linspace(dg_args.num_d_a)
    /\ d_bs' = IF dg_args.sym_B = None THEN <<Zero>> ELSE linspace(dg_args.num_d_b)
    /\ dg_i' = 1 /\ dg_j' = 1
    /\ dg_pc' = "loop"
    /\ UNCHANGED <<dg_args, inputs>>
    /\ UNCHANGED <<sgVars, oiVars, gaVars, wdVars, fgVars>>

\* lines 14-15: np.linspace raises ValueError when num is negative
DgAxesRaise ==
    /\ dg_pc = "start"
    /\ dg_args.sym_B # None
    /\ dg_args.num_d_a < 0 \/ dg_args.num_d_b < 0
    /\ dg_pc' = "raised"
    /\ UNCHANGED <<dg_args, d_as, d_bs, dg_i, dg_j, inputs>>
    /\ UNCHANGED <<sgVars, oiVars, gaVars, wdVars, fgVars>>

\* lines 19-28: one pass of the inner loop's body
DgBody ==
    /\ dg_pc = "loop"
    /\ dg_i <= Len(d_as) /\ dg_j <= Len(d_bs)
    /\ inputs' = DictSet(inputs, <<d_as[dg_i], d_bs[dg_j]>>,
                         dgrid_entry(dg_args, d_as[dg_i], d_bs[dg_j]))
    /\ IF dg_j < Len(d_bs)
         THEN dg_j' = dg_j + 1 /\ dg_i' = dg_i
         ELSE dg_j' = 1 /\ dg_i' = dg_i + 1
    /\ UNCHANGED <<dg_pc, dg_args, d_as, d_bs>>
    /\ UNCHANGED <<sgVars, oiVars, gaVars, wdVars, fgVars>>

\* line 30: both loops exhausted
DgReturn ==
    /\ dg_pc = "loop"
    /\ dg_i > Len(d_as) \/ Len(d_bs) = 0
    /\ dg_pc' = "done"
    /\ UNCHANGED <<dg_args, d_as, d_bs, dg_i, dg_j, inputs>>
    /\ UNCHANGED <<sgVars, oiVars, gaVars, wdVars, fgVars>>

DgNext == DgAxes \/ DgAxesRaise \/ DgBody \/ DgReturn

SpecDgrid == DgInit /\ [][DgNext]_vars

\* the fraction q is i/num for some 0 <= i < num
IsMultipleOf(q, num) == \E i \in 0..(num - 1) : q[1] * num = i * q[2]

\* C1: when dgrid_inputs returns, with sym_B given and num_d_a = Na >= 1,
\* num_d_b = Nb >= 1 its keys are exactly the Na*Nb distinct pairs
\* (i/Na, j/Nb), 0 <= i < Na, 0 <= j < Nb, every coordinate in [0, 1); with
\* sym_B None the only key is (0.0, 0.0); and every value holds exactly the
\* entries material, scf, nscf, bands, bands_post built from the material of
\* the key's own (d_a, d_b).
C1_GridKeys ==
    LET Na == dg_args.num_d_a
        Nb == dg_args.num_d_b
    IN
    dg_pc = "done" =>
        /\ (dg_args.sym_B # None /\ Na >= 1 /\ Nb >= 1) =>
              /\ Cardinality(DOMAIN inputs) = Na * Nb
              /\ \A k \in DOMAIN inputs :
                    /\ IsMultipleOf(k[1], Na) /\ IsMultipleOf(k[2], Nb)
                    /\ k[1][1] >= 0 /\ k[1][1] < k[1][2]
                    /\ k[2][1] >= 0 /\ k[2][1] < k[2][2]
              /\ \A i \in 0..(Na - 1), j \in 0..(Nb - 1) :
                    \E k \in DOMAIN inputs :
                        /\ k[1][1] * Na = i * k[1][2]
                        /\ k[2][1] * Nb = j * k[2][2]
        /\ dg_args.sym_B = None => DOMAIN inputs = {<<<<0, 1>>, <<0, 1>>>>}
        /\ \A k \in DOMAIN inputs :
              LET m == [db_path |-> dg_args.db_path, sym_A |-> dg_args.sym_A,
                        sym_B |-> dg_args.sym_B, c_sep |-> dg_args.c_sep,
                        d_a |-> k[1], d_b |-> k[2]]
              IN  /\ DOMAIN inputs[k] =
                        {"material", "scf", "nscf", "bands", "bands_post"}
                  /\ inputs[k]["material"] = m
                  /\ inputs[k]["scf"] = <<"qe", "scf", m>>
                  /\ inputs[k]["nscf"] = <<"qe", "nscf", m>>
                  /\ inputs[k]["bands"] = <<"qe", "bands", m>>
                  /\ inputs[k]["bands_post"] = <<"bands_post", m>>

C1_Witness ==
    /\ dg_pc = "done"
    /\ dg_args.sym_B # None
    /\ dg_args.num_d_a = 2 /\ dg_args.num_d_b = 3
    /\ Cardinality(DOMAIN inputs) = 6

(***************************************************************************)
(* plot_ds.py: sorted_d_group                                              *)
(***************************************************************************)
Min(a, b) == IF a <= b THEN a ELSE b

\* zip(xs, ys): the pairs up to the end of the shorter list
zip(xs, ys) == [k \in 1..Min(Len(xs), Len(ys)) |-> <<xs[k], ys[k]>>]

\* x put into a list already sorted on dp[0][c], after every element whose key
\* is not larger: equal keys keep their order of arrival
RECURSIVE InsertByKey(_, _, _)
InsertByKey(s, x, c) ==
    IF s = <<>> THEN <<x>>
    ELSE IF Head(s)[1][c] <= x[1][c]
         THEN <<Head(s)>> \o InsertByKey(Tail(s), x, c)
         ELSE <<x>> \o s

\* sorted(s, key=lambda dp: dp[0][c]): Python's sort is stable
RECURSIVE sorted_by(_, _)
sorted_by(s, c) ==
    IF s = <<>> THEN <<>>
    ELSE InsertByKey(sorted_by(SubSeq(s, 1, Len(s) - 1), c), s[Len(s)], c)

\* the two sorts in the other order: da first, db last
sorted_d_group_da_first(ds, values) == sorted_by(sorted_by(zip(ds, values), 1), 2)

\* lines 53-56: sort on db (dp[0][1]), then on da (dp[0][0])
sorted_d_group(ds, values) == sorted_by(sorted_by(zip(ds, values), 2), 1)

SeqsUpTo(S, n) == UNION {[1..k -> S] : k \in 0..n}

DSet == (0..MaxD) \X (0..MaxD)

SgInit ==
    /\ DgIdle /\ OiIdle /\ GaIdle /\ WdIdle /\ FgIdle
    /\ sg_pc = "start"
    /\ sg_ds \in SeqsUpTo(DSet, MaxLen)
    /\ sg_values \in SeqsUpTo({"u", "v"}, MaxLen)
    /\ dvs = <<>>

\* the call sorted_d_group(ds, values)
SgCall ==
    /\ sg_pc = "start"
    /\ dvs' = sorted_d_group(sg_ds, sg_values)
    /\ sg_pc' = "done"
    /\ UNCHANGED <<sg_ds, sg_values>>
    /\ UNCHANGED <<dgVars, oiVars, gaVars, wdVars, fgVars>>

SgNext == SgCall

SpecSort == SgInit /\ [][SgNext]_vars

Perms(n) == {p \in [1..n -> 1..n] : \A a, b \in 1..n : a # b => p[a] # p[b]}

LexLeq(d, e) == d[1] < e[1] \/ (d[1] = e[1] /\ d[2] <= e[2])

\* C4: sorted_d_group returns a permutation of the pairs zip(ds, values), each
\* d with its own value, in lexicographic order on (da, db), and pairs with
\* equal (da, db) keep their relative input order.
C4_SortedStable ==
    sg_pc = "done" =>
        LET n == Min(Len(sg_ds), Len(sg_values)) IN
        /\ Len(dvs) = n
        /\ \E p \in Perms(n) :
              /\ \A k \in 1..n : dvs[k] = <<sg_ds[p[k]], sg_values[p[k]]>>
              /\ \A k, l \in 1..n :
                    k < l => /\ LexLeq(dvs[k][1], dvs[l][1])
                             /\ dvs[k][1] = dvs[l][1] => p[k] < p[l]

C4_Witness ==
    /\ sg_pc = "done"
    /\ sg_ds = <<<<1, 0>>, <<0, 1>>, <<0, 0>>>>
    /\ sg_values = <<"u", "v", "v">>
    /\ dvs = <<<<<<0, 0>>, "v">>, <<<<0, 1>>, "v">>, <<<<1, 0>>, "u">>>>

(***************************************************************************)
(* plot_ds.py: orbital_index                                               *)
(***************************************************************************)
X_syms == {"X1", "X2", "X1p", "X2p"}
M_syms == {"M", "Mp"}
X_orbitals == <<"pz", "px", "py">>
M_orbitals == <<"dz2", "dxz", "dyz", "dx2-y2", "dxy">>

Range(s) == {s[k] : k \in DOMAIN s}

\* an outcome of orbital_index: the index returned, or the ValueError raised
Returned(n) == [raised |-> "", index |-> n]
Raised(msg) == [raised |-> msg, index |-> 0]
Plus(n, out) == IF out.raised = "" THEN Returned(n + out.index) ELSE out

\* lines 127-137: the orbitals of the atoms that come before sym
RECURSIVE atom_offset(_, _, _)
atom_offset(order, sym, num_spins) ==
    IF order = <<>> THEN Returned(0)
    ELSE IF Head(order) = sym THEN Returned(0)
    ELSE IF Head(order) \in X_syms
         THEN Plus(num_spins * 3, atom_offset(Tail(order), sym, num_spins))
    ELSE IF Head(order) \in M_syms
         THEN Plus(num_spins * 5, atom_offset(Tail(order), sym, num_spins))
    ELSE Raised("unexpected value in orbital_orders")

\* lines 152-156: num_spins for every orbital of the atom before `orbital`
RECURSIVE orbital_offset(_, _, _)
orbital_offset(orbs, orbital, num_spins) ==
    IF orbs = <<>> THEN 0
    ELSE IF Head(orbs) = orbital THEN 0
    ELSE num_spins + orbital_offset(Tail(orbs), orbital, num_spins)

\* lines 158-163 without the soc test: the spin is looked at whatever soc is
spin_offset_always(out, spin, soc) ==
    IF spin = "up" THEN out
    ELSE IF spin = "down" THEN Plus(1, out)
    ELSE Raised("unrecognized spin")

\* lines 158-163: the spin's place within the orbital
spin_offset(out, spin, soc) ==
    IF ~soc \/ spin = "up" THEN out
    ELSE IF spin = "down" THEN Plus(1, out)
    ELSE Raised("unrecognized spin")

\* lines 111-163
orbital_index(order, sym, orbital, spin, soc) ==
    LET num_spins == IF soc THEN 2 ELSE 1
        at == atom_offset(order, sym, num_spins)
        this_orbitals == IF sym \in X_syms THEN X_orbitals ELSE M_orbitals
    IN  IF at.raised # "" THEN at
        ELSE IF sym \notin X_syms \cup M_syms
             THEN Raised("unrecognized atom position symbol")
        ELSE IF orbital \notin Range(this_orbitals)
             THEN Raised("orbital not present for atom")
        ELSE spin_offset(Plus(orbital_offset(this_orbitals, orbital, num_spins), at),
                         spin, soc)

AtomSyms == X_syms \cup M_syms \cup {"Zz"}
Orbitals == Range(X_orbitals) \cup Range(M_orbitals) \cup {"s"}
Spins == {"up", "down", "sideways"}

OiInit ==
    /\ DgIdle /\ SgIdle /\ GaIdle /\ WdIdle /\ FgIdle
    /\ oi_pc = "start"
    /\ oi_args \in [atom_Hr_order : SeqsUpTo(AtomSyms, MaxAtoms), sym : AtomSyms,
                     orbital : Orbitals, soc : BOOLEAN]
    /\ oi_spins = <<>>
    /\ oi_out = <<>>

\* two calls of orbital_index that differ only in the spin argument
OiCalls ==
    /\ oi_pc = "start"
    /\ \E s1, s2 \in Spins :
          /\ oi_spins' = <<s1, s2>>
          /\ oi_out' = <<orbital_index(oi_args.atom_Hr_order, oi_args.sym,
                                       oi_args.orbital, s1, oi_args.soc),
                         orbital_index(oi_args.atom_Hr_order, oi_args.sym,
                                       oi_args.orbital, s2, oi_args.soc)>>
    /\ oi_pc' = "done"
    /\ UNCHANGED oi_args
    /\ UNCHANGED <<dgVars, sgVars, gaVars, wdVars, fgVars>>

OiNext == OiCalls

SpecOrb == OiInit /\ [][OiNext]_vars

\* C5: with soc False two calls of orbital_index that differ only in the spin
\* argument have the same outcome (the same index or the same error), and
\* the unrecognized-spin ValueError is never raised.
C5_SpinIgnored ==
    (oi_pc = "done" /\ ~oi_args.soc) =>
        /\ oi_out[1] = oi_out[2]
        /\ oi_out[1].raised # "unrecognized spin"
        /\ oi_out[2].raised # "unrecognized spin"

C5_Witness ==
    /\ oi_pc = "done" /\ ~oi_args.soc
    /\ oi_spins = <<"down", "sideways">>
    /\ oi_args.atom_Hr_order = <<"M", "X1">> /\ oi_args.sym = "X2"
    /\ oi_args.orbital = "py"
    /\ oi_out[1] = [raised |-> "", index |-> 10]

(***************************************************************************)
(* plot_ds.py: sort_order, get_atom_order                                  *)
(***************************************************************************)
z_order_syms == <<"X1", "M", "X2", "X1p", "Mp", "X2p">>

\* lines 85-95 with f = lambda x: x[2]: the original (0-based) indices of xs,
\* in ascending order of the z coordinate
sort_order(xs) ==
    LET with_orig_order == [k \in 1..Len(xs) |-> <<xs[k], k - 1>>]
        xs_sorted == sorted_by(with_orig_order, 3)
    IN  [k \in 1..Len(xs) |-> xs_sorted[k][2]]

\* lines 105-107: z_order_syms[z_val] for each z_val of z_order, in order
syms_of(order) == [k \in 1..Len(order) |-> z_order_syms[order[k] + 1]]

GaInit ==
    /\ DgIdle /\ SgIdle /\ OiIdle /\ WdIdle /\ FgIdle
    /\ ga_pc = "start"
    /\ cart_coords \in [1..Len(z_order_syms) -> {<<0, 0, z>> : z \in 1..MaxZ}]
    /\ z_order = <<>>
    /\ atom_Hr_order = <<>>

\* lines 102-103: z_order = sort_order(cart_coords, lambda x: x[2])
GaSortOrder ==
    /\ ga_pc = "start"
    /\ z_order' = sort_order(cart_coords)
    /\ ga_pc' = "sorted"
    /\ UNCHANGED <<cart_coords, atom_Hr_order>>
    /\ UNCHANGED <<dgVars, sgVars, oiVars, wdVars, fgVars>>

\* lines 105-109
GaSyms ==
    /\ ga_pc = "sorted"
    /\ atom_Hr_order' = syms_of(z_order)
    /\ ga_pc' = "done"
    /\ UNCHANGED <<cart_coords, z_order>>
    /\ UNCHANGED <<dgVars, sgVars, oiVars, wdVars, fgVars>>

GaNext == GaSortOrder \/ GaSyms

SpecAtom == GaInit /\ [][GaNext]_vars

ZOf(j) == cart_coords[j][3]

DistinctZ == \A a, b \in DOMAIN cart_coords : a # b => ZOf(a) # ZOf(b)

\* the number of atoms lower than atom j
RankOf(j) == Cardinality({k \in DOMAIN cart_coords : ZOf(k) < ZOf(j)})

\* C6: for pairwise distinct z coordinates, entry j of atom_Hr_order is
\* z_order_syms[r] with r the rank of atom j's z coordinate among all atoms,
\* for every permutation of the heights.
C6_LabelByHeight ==
    (ga_pc = "done" /\ DistinctZ) =>
        \A j \in DOMAIN cart_coords :
            atom_Hr_order[j] = z_order_syms[RankOf(j) + 1]

(***************************************************************************)
(* dgrid.py: write_dgrid, _write_dv.  A path is the sequence of its        *)
(* components below the parent of base_path (the parent itself is <<>>);   *)
(* a component is a tuple of strings, so that "{prefix}.scf.in" is         *)
(* <<prefix, ".scf.in">>.  The file system is the set of directories, the  *)
(* regular files with their contents, and the error raised so far.         *)
(***************************************************************************)
Parent(path) == SubSeq(path, 1, Len(path) - 1)

\* os.path.join(base_path, ...)
base_path == <<<<"base">>>>
d_dir_path(prefix) == base_path \o <<<<prefix>>>>
material_path(prefix) == d_dir_path(prefix) \o <<<<"material.yaml">>>>
wannier_dir_path(prefix) == d_dir_path(prefix) \o <<<<"wannier">>>>
bands_dir_path(prefix) == d_dir_path(prefix) \o <<<<"bands">>>>
scf_path(prefix) == wannier_dir_path(prefix) \o <<<<prefix, ".scf.in">>>>
nscf_path(prefix) == wannier_dir_path(prefix) \o <<<<prefix, ".nscf.in">>>>
bands_path(prefix) == bands_dir_path(prefix) \o <<<<prefix, ".bands.in">>>>
bands_post_path(prefix) == bands_dir_path(prefix) \o <<<<prefix, ".bands_post.in">>>>

\* yaml.dump(material)
yaml_dump(material) == <<"yaml", material>>

\* os.path.exists(path): true of a directory and of a regular file
exists(f, path) == path \in f.dirs \/ path \in DOMAIN f.files

FsRaise(f, err) == [f EXCEPT !.raised = err]

\* os.mkdir(path)
mkdir(f, path) ==
    IF f.raised # "" THEN f
    ELSE IF exists(f, path) THEN FsRaise(f, "FileExistsError")
    ELSE IF Parent(path) \in DOMAIN f.files THEN FsRaise(f, "NotADirectoryError")
    ELSE IF Parent(path) \notin f.dirs THEN FsRaise(f, "FileNotFoundError")
    ELSE [f EXCEPT !.dirs = @ \cup {path}]

\* os.mkdir(path) without the os.path.exists test
mkdir_unchecked(f, path) == mkdir(f, path)

\* if not os.path.exists(path): os.mkdir(path)
mkdir_if_missing(f, path) ==
    IF f.raised # "" THEN f
    ELSE IF ~exists(f, path) THEN mkdir(f, path) ELSE f

\* with open(path, 'w') as fp: fp.write(text)
write_file(f, path, text) ==
    IF f.raised # "" THEN f
    ELSE IF path \in f.dirs THEN FsRaise(f, "IsADirectoryError")
    ELSE IF Parent(path) \in DOMAIN f.files THEN FsRaise(f, "NotADirectoryError")
    ELSE IF Parent(path) \notin f.dirs THEN FsRaise(f, "FileNotFoundError")
    ELSE [f EXCEPT !.files = DictSet(@, path, text)]

\* lines 36-74
write_dv(f, dv) ==
    LET prefix == dv["material"]["prefix"]
        f1 == mkdir_if_missing(f, base_path)
        f2 == mkdir_if_missing(f1, d_dir_path(prefix))
        f3 == write_file(f2, material_path(prefix), yaml_dump(dv["material"]))
        f4 == mkdir_if_missing(f3, wannier_dir_path(prefix))
        f5 == mkdir_if_missing(f4, bands_dir_path(prefix))
        f6 == write_file(f5, scf_path(prefix), dv["scf"])
        f7 == write_file(f6, nscf_path(prefix), dv["nscf"])
        f8 == write_file(f7, bands_path(prefix), dv["bands"])
    IN  write_file(f8, bands_post_path(prefix), dv["bands_post"])

Prefixes == {"p1", "p2"}

\* the values of a dgrid: what dgrid_inputs builds for a material
DvOf(prefix, ver) ==
    LET material == [prefix |-> prefix, ver |-> ver]
    IN  [material |-> material, scf |-> build_qe(material, "scf"),
         nscf |-> build_qe(material, "nscf"), bands |-> build_qe(material, "bands"),
         bands_post |-> build_bands(material)]

Dvs == {DvOf(prefix, ver) : prefix \in Prefixes, ver \in {"v1", "v2"}}

DirsOf(prefix) ==
    {d_dir_path(prefix), wannier_dir_path(prefix), bands_dir_path(prefix)}

FilesOf(prefix) ==
    {material_path(prefix), scf_path(prefix), nscf_path(prefix),
     bands_path(prefix), bands_post_path(prefix)}

AllDirs == {<<>>, base_path} \cup UNION {DirsOf(prefix) : prefix \in Prefixes}
AllFiles == UNION {FilesOf(prefix) : prefix \in Prefixes}

\* the file systems write_dgrid may start in: directories closed under
\* parents; left-over files of an earlier run (none, each material.yaml, or
\* all) where their directory exists; at most one regular file in the place
\* of one of the directories
DirChoices(prefix) ==
    {{}} \cup {{d_dir_path(prefix)} \cup sub :
                   sub \in SUBSET {wannier_dir_path(prefix), bands_dir_path(prefix)}}

StartDirs ==
    {{}, {<<>>}} \cup
    {{<<>>, base_path} \cup UNION {c[prefix] : prefix \in Prefixes} :
        c \in {c \in [Prefixes -> UNION {DirChoices(prefix) : prefix \in Prefixes}] :
                  \A prefix \in Prefixes : c[prefix] \in DirChoices(prefix)}}

StartOld(ds) ==
    {{},
     {m \in AllFiles : Parent(m) \in ds /\ m[Len(m)] = <<"material.yaml">>},
     {m \in AllFiles : Parent(m) \in ds}}

StartBlocked(ds) ==
    {{}} \cup {{b} : b \in {d \in AllDirs \ ({<<>>} \cup ds) : Parent(d) \in ds}}

StartFs ==
    UNION {{[dirs |-> ds, files |-> [path \in old \cup blocked |-> "old"],
             raised |-> ""] : old \in StartOld(ds), blocked \in StartBlocked(ds)} :
           ds \in StartDirs}

WdInit ==
    /\ DgIdle /\ SgIdle /\ OiIdle /\ GaIdle /\ FgIdle
    /\ fs \in StartFs
    /\ wd_dgrid \in SeqsUpTo(Dvs, MaxItems)
    /\ wd_pc = "loop" /\ wd_k = 1 /\ wd_run = 1
    /\ fs_start = fs /\ fs_prev = fs /\ fs_run1 = fs

\* lines 33-34: _write_dv(base_path, dv) for the next item of the dgrid
WdWriteDv ==
    /\ wd_pc = "loop"
    /\ wd_k <= Len(wd_dgrid)
    /\ fs' = write_dv(fs, wd_dgrid[wd_k])
    /\ fs_prev' = fs
    /\ wd_k' = wd_k + 1
    /\ wd_pc' = IF fs'.raised # "" THEN "raised" ELSE "loop"
    /\ UNCHANGED <<wd_dgrid, wd_run, fs_start, fs_run1>>
    /\ UNCHANGED <<dgVars, sgVars, oiVars, gaVars, fgVars>>

\* write_dgrid returns, and is run again with the same dgrid
WdRunAgain ==
    /\ wd_pc = "loop"
    /\ wd_k > Len(wd_dgrid)
    /\ wd_run = 1
    /\ fs_run1' = fs
    /\ wd_run' = 2
    /\ wd_k' = 1
    /\ UNCHANGED <<fs, wd_pc, wd_dgrid, fs_start, fs_prev>>
    /\ UNCHANGED <<dgVars, sgVars, oiVars, gaVars, fgVars>>

\* the second run of write_dgrid returns
WdReturn ==
    /\ wd_pc = "loop"
    /\ wd_k > Len(wd_dgrid)
    /\ wd_run = 2
    /\ wd_pc' = "done"
    /\ UNCHANGED <<fs, wd_dgrid, wd_k, wd_run, fs_start, fs_prev, fs_run1>>
    /\ UNCHANGED <<dgVars, sgVars, oiVars, gaVars, fgVars>>

WdNext == WdWriteDv \/ WdRunAgain \/ WdReturn

SpecWrite == WdInit /\ [][WdNext]_vars

\* the parent of base_path exists, and whichever of base_path and the three
\* directories of each prefix of the dgrid exist at the start are directories
WdStartsWithDirs ==
    /\ <<>> \in fs_start.dirs
    /\ \A k \in DOMAIN wd_dgrid :
          \A d \in {base_path} \cup DirsOf(wd_dgrid[k]["material"]["prefix"]) :
              d \notin DOMAIN fs_start.files

\* the item _write_dv has just written
\* C3: from a start with the parent of base_path present and any subset of
\* base_path, base_path/<prefix>, .../wannier, .../bands present as
\* directories, _write_dv raises nothing, creates only the missing ones of
\* these directories, leaves its five files holding the current dv's
\* contents and the entries of other prefixes as they were; and the second
\* run of write_dgrid with the same dgrid leaves the tree and the contents
\* the first run left.
C3_Rerunnable ==
    WdStartsWithDirs =>
        /\ wd_pc # "raised" /\ fs.raised = ""
        /\ wd_k > 1 =>
              LET dv == wd_dgrid[wd_k - 1]
                  prefix == dv["material"]["prefix"]
                  mine == {base_path} \cup DirsOf(prefix)
              IN  /\ mine \subseteq fs.dirs
                  /\ fs.dirs \ fs_prev.dirs = mine \ fs_prev.dirs
                  /\ fs_prev.dirs \subseteq fs.dirs
                  /\ DOMAIN fs.files = DOMAIN fs_prev.files \cup FilesOf(prefix)
                  /\ fs.files[material_path(prefix)] = <<"yaml", dv["material"]>>
                  /\ fs.files[scf_path(prefix)] = dv["scf"]
                  /\ fs.files[nscf_path(prefix)] = dv["nscf"]
                  /\ fs.files[bands_path(prefix)] = dv["bands"]
                  /\ fs.files[bands_post_path(prefix)] = dv["bands_post"]
                  /\ \A path \in DOMAIN fs_prev.files \ FilesOf(prefix) :
                        fs.files[path] = fs_prev.files[path]
        /\ wd_pc = "done" => fs = fs_run1

C3_Witness ==
    /\ wd_pc = "done" /\ wd_run = 2 /\ WdStartsWithDirs
    /\ Len(wd_dgrid) = 2
    /\ wd_dgrid[1]["material"]["prefix"] = "p1"
    /\ wd_dgrid[2] = DvOf("p1", "v2")
    /\ fs_start.dirs = {<<>>, base_path, d_dir_path("p1"), bands_dir_path("p1"),
                         d_dir_path("p2")}
    /\ material_path("p1") \in DOMAIN fs_start.files
    /\ material_path("p2") \in DOMAIN fs_start.files
    /\ fs.files[material_path("p2")] = "old"
    /\ fs.files[scf_path("p1")] = DvOf("p1", "v2")["scf"]

(***************************************************************************)
(* plot_ds.py: system_all_gaps, find_gaps.  Energies are in units of 5 meV. *)
(* The work directory holds, per prefix, the Fermi energy of scf.out (or    *)
(* no scf.out) and the gaps HrFindGaps finds in <prefix>_hr.dat.            *)
(***************************************************************************)
\* line 259: 1e-2 eV
gap_in_band_tolerance == 2

Abs(x) == IF x < 0 THEN -x ELSE x

\* tmd.pwscf.parseScf.fermi_from_scf
fermi_from_scf(files, prefix) == files.fermi[prefix]

\* tmd.wannier.findGaps.HrFindGaps: gaps, dos_vals, E_vals
HrFindGaps(files, prefix) ==
    <<files.gaps[prefix], <<"dos_vals", prefix>>, <<"E_vals", prefix>>>>

\* what a task hands back: not yet anything, a value, or an exception
Pending == [ready |-> FALSE, raised |-> FALSE, value |-> <<>>]
TaskValue(v) == [ready |-> TRUE, raised |-> FALSE, value |-> v]
TaskRaised == [ready |-> TRUE, raised |-> TRUE, value |-> <<>>]

\* lines 226-239: reads only the files of its own prefix
system_all_gaps(files, args) ==
    IF args[2] \in files.missing THEN TaskRaised
    ELSE TaskValue(HrFindGaps(files, args[2]))

\* line 244: the argument tuple of one task
gap_call_arg(dp) == <<"work", dp[2], "E_below_fermi", "E_above_fermi", "num_dos",
                      "na", "nb">>

\* all_gaps_output[0][0]: the gaps of the first task, whatever d_index is
this_gaps_first(output, d_index) == output[1].value[1]

\* line 251: all_gaps_output[d_index][0]
this_gaps(output, d_index) == output[d_index].value[1]

\* lines 255-270: the width of the first gap that holds E_F or has an edge
\* within the tolerance of it, 0.0 if there is none
RECURSIVE gap_at_fermi(_, _)
gap_at_fermi(gap_intervals, E_F) ==
    IF gap_intervals = <<>> THEN 0
    ELSE LET gap_interval == Head(gap_intervals) IN
         IF \/ E_F >= gap_interval[1] /\ E_F <= gap_interval[2]
            \/ Abs(gap_interval[1] - E_F) < gap_in_band_tolerance
            \/ Abs(E_F - gap_interval[2]) < gap_in_band_tolerance
         THEN gap_interval[2] - gap_interval[1]
         ELSE gap_at_fermi(Tail(gap_intervals), E_F)

Workers == 1..NumWorkers

\* displacement samples as wrap_cell makes them: a prefix may come twice
DpSet == {<<"d00", "p1">>, <<"d11", "p1">>, <<"d01", "p2">>}

WorkDirs ==
    {[fermi |-> [prefix \in Prefixes |-> IF prefix = "p1" THEN e ELSE 5],
      gaps |-> [prefix \in Prefixes |->
                  IF prefix = "p1" THEN <<<<0, 3>>, <<6, 10>>>> ELSE g],
      missing |-> m] :
        e \in {2, 5},
        g \in {<<>>, <<<<0, 2>>, <<6, 9>>>>, <<<<0, 2>>, <<8, 9>>>>},
        m \in {{}, {"p2"}}}

FgInit ==
    /\ DgIdle /\ SgIdle /\ OiIdle /\ GaIdle /\ WdIdle
    /\ fg_files \in WorkDirs
    /\ fg_dps \in SeqsUpTo(DpSet, MaxDps)
    /\ fg_pc = "start"
    /\ gap_call_args = <<>>
    /\ taskqueue = <<>>
    /\ worker = [w \in Workers |-> 0]
    /\ outqueue = <<>>
    /\ all_gaps_output = <<>>
    /\ fg_started = <<>>
    /\ fg_finished = <<>>
    /\ fg_index = 0
    /\ gaps = <<>>

\* lines 242-244
FgArgs ==
    /\ fg_pc = "start"
    /\ gap_call_args' = [k \in 1..Len(fg_dps) |-> gap_call_arg(fg_dps[k])]
    /\ fg_pc' = "starmap"
    /\ UNCHANGED <<fg_files, fg_dps, taskqueue, worker, outqueue, all_gaps_output,
                   fg_started, fg_finished, fg_index, gaps>>
    /\ UNCHANGED <<dgVars, sgVars, oiVars, gaVars, wdVars>>

\* lines 246-247: starmap queues one task per element of gap_call_args
FgStarmap ==
    /\ fg_pc = "starmap"
    /\ taskqueue' = [k \in 1..Len(gap_call_args) |-> k]
    /\ all_gaps_output' = [k \in 1..Len(gap_call_args) |-> Pending]
    /\ fg_started' = [k \in 1..Len(gap_call_args) |-> 0]
    /\ fg_pc' = "wait"
    /\ UNCHANGED <<fg_files, fg_dps, gap_call_args, worker, outqueue, fg_finished,
                   fg_index, gaps>>
    /\ UNCHANGED <<dgVars, sgVars, oiVars, gaVars, wdVars>>

\* a free worker takes the next task of the queue
PoolTake(w) ==
    /\ fg_pc = "wait"
    /\ worker[w] = 0
    /\ taskqueue # <<>>
    /\ worker' = [worker EXCEPT ![w] = Head(taskqueue)]
    /\ taskqueue' = Tail(taskqueue)
    /\ fg_started' = [fg_started EXCEPT ![Head(taskqueue)] = @ + 1]
    /\ UNCHANGED <<fg_files, fg_pc, fg_dps, gap_call_args, outqueue,
                   all_gaps_output, fg_finished, fg_index, gaps>>
    /\ UNCHANGED <<dgVars, sgVars, oiVars, gaVars, wdVars>>

\* the worker runs system_all_gaps(*args) and queues what it gave
PoolRun(w) ==
    /\ worker[w] # 0
    /\ outqueue' = Append(outqueue,
                          <<worker[w],
                            system_all_gaps(fg_files, gap_call_args[worker[w]])>>)
    /\ worker' = [worker EXCEPT ![w] = 0]
    /\ UNCHANGED <<fg_files, fg_pc, fg_dps, gap_call_args, taskqueue,
                   all_gaps_output, fg_started, fg_finished, fg_index, gaps>>
    /\ UNCHANGED <<dgVars, sgVars, oiVars, gaVars, wdVars>>

\* the pool files a result under the place of its task in the iterable
PoolResult ==
    /\ outqueue # <<>>
    /\ all_gaps_output' =
          [all_gaps_output EXCEPT ![Head(outqueue)[1]] = Head(outqueue)[2]]
    /\ fg_finished' = Append(fg_finished, Head(outqueue)[1])
    /\ outqueue' = Tail(outqueue)
    /\ UNCHANGED <<fg_files, fg_pc, fg_dps, gap_call_args, taskqueue, worker,
                   fg_started, fg_index, gaps>>
    /\ UNCHANGED <<dgVars, sgVars, oiVars, gaVars, wdVars>>

\* line 247: starmap returns once every result is there
FgJoin ==
    /\ fg_pc = "wait"
    /\ \A k \in DOMAIN all_gaps_output : all_gaps_output[k].ready
    /\ \A k \in DOMAIN all_gaps_output : ~all_gaps_output[k].raised
    /\ fg_pc' = "loop"
    /\ fg_index' = 1
    /\ UNCHANGED <<fg_files, fg_dps, gap_call_args, taskqueue, worker, outqueue,
                   all_gaps_output, fg_started, fg_finished, gaps>>
    /\ UNCHANGED <<dgVars, sgVars, oiVars, gaVars, wdVars>>

\* line 247: starmap raises the exception of a task that raised
FgJoinRaise ==
    /\ fg_pc = "wait"
    /\ \A k \in DOMAIN all_gaps_output : all_gaps_output[k].ready
    /\ \E k \in DOMAIN all_gaps_output : all_gaps_output[k].raised
    /\ fg_pc' = "raised"
    /\ UNCHANGED <<fg_files, fg_dps, gap_call_args, taskqueue, worker, outqueue,
                   all_gaps_output, fg_started, fg_finished, fg_index, gaps>>
    /\ UNCHANGED <<dgVars, sgVars, oiVars, gaVars, wdVars>>

\* lines 250-270: one pass of the loop over dps
FgLoop ==
    /\ fg_pc = "loop"
    /\ fg_index <= Len(fg_dps)
    /\ gaps' = Append(gaps,
                      gap_at_fermi(this_gaps(all_gaps_output, fg_index),
                                   fermi_from_scf(fg_files, fg_dps[fg_index][2])))
    /\ fg_index' = fg_index + 1
    /\ UNCHANGED <<fg_files, fg_pc, fg_dps, gap_call_args, taskqueue, worker,
                   outqueue, all_gaps_output, fg_started, fg_finished>>
    /\ UNCHANGED <<dgVars, sgVars, oiVars, gaVars, wdVars>>

\* line 272
FgReturn ==
    /\ fg_pc = "loop"
    /\ fg_index > Len(fg_dps)
    /\ fg_pc' = "done"
    /\ UNCHANGED <<fg_files, fg_dps, gap_call_args, taskqueue, worker, outqueue,
                   all_gaps_output, fg_started, fg_finished, fg_index, gaps>>
    /\ UNCHANGED <<dgVars, sgVars, oiVars, gaVars, wdVars>>

FgNext ==
    \/ FgArgs \/ FgStarmap
    \/ \E w \in Workers : PoolTake(w) \/ PoolRun(w)
    \/ PoolResult
    \/ FgJoin \/ FgJoinRaise \/ FgLoop \/ FgReturn

SpecGaps == FgInit /\ [][FgNext]_vars

\* C2: find_gaps hands the pool exactly one system_all_gaps task per entry of
\* dps, a task's output depends on its own arguments only, find_gaps goes on
\* only when every task has finished, and for every interleaving and order
\* of completion the list returned has length len(dps) and its i-th element
\* comes from the i-th task's output and the i-th entry of dps.
C2_OneTaskPerSample ==
    LET n == Len(fg_dps)
        Gaps(prefix) == fg_files.gaps[prefix]
        Fermi(prefix) == fg_files.fermi[prefix]
    IN
    /\ fg_pc \notin {"start", "starmap"} =>
          /\ Len(gap_call_args) = n /\ DOMAIN fg_started = 1..n
          /\ DOMAIN all_gaps_output = 1..n
          /\ \A i \in 1..n :
                /\ gap_call_args[i][2] = fg_dps[i][2]
                /\ fg_started[i] <= 1
                /\ all_gaps_output[i].ready /\ ~all_gaps_output[i].raised =>
                      all_gaps_output[i].value[1] = Gaps(fg_dps[i][2])
    /\ fg_pc \in {"loop", "done", "raised"} =>
          /\ taskqueue = <<>> /\ outqueue = <<>>
          /\ \A w \in Workers : worker[w] = 0
          /\ \A i \in 1..n : fg_started[i] = 1 /\ all_gaps_output[i].ready
          /\ Len(fg_finished) = n
    /\ fg_pc = "done" =>
          /\ Len(gaps) = n
          /\ \A i \in 1..n :
                gaps[i] = gap_at_fermi(Gaps(fg_dps[i][2]), Fermi(fg_dps[i][2]))

C2_Witness ==
    /\ fg_pc = "done"
    /\ fg_dps = <<<<"d00", "p1">>, <<"d01", "p2">>, <<"d11", "p1">>>>
    /\ fg_finished = <<2, 3, 1>>
    /\ fg_files.fermi["p1"] = 5
    /\ gaps = <<4, 3, 4>>

====
